---------------------------- MODULE Spec2Model ----------------------------
(***************************************************************************)
(* Model of scripts/analyze_positions.py: the Chess960 position analyzer.  *)
(*                                                                         *)
(* Two specifications share this module.                                   *)
(*   SpecAnalyze : one call of StockfishWorker.analyze(), one engine       *)
(*                 output line per step (lines 60-93 and the parser,       *)
(*                 lines 95-137).                                          *)
(*   Spec        : main() and the worker threads (lines 145-255): queue    *)
(*                 fill, workers, progress loop, periodic and final save.  *)
(***************************************************************************)
EXTENDS Integers, Sequences, FiniteSets, TLC

VARIABLES
    \* ---- analyze(): locals of the read loop (lines 65-93)
    apc,          \* position in analyze(): "read" (in the loop) or "done"
    line,         \* the line last returned by readline().strip()
    parsed,       \* local `parsed`: {} (None / never assigned) or {record}
    lines,        \* local `lines`: dict pv_num -> parsed record
    final_depth,  \* local `final_depth`
    result,       \* the returned dict, {} before the return
    seen,         \* history of the job: see Observe
    \* ---- main() and the worker threads (lines 145-255)
    positions,    \* data["positions"]: the input list, as the list of its ids
    startfile,    \* history: the content of OUTPUT_PATH when main() began
    file,         \* OUTPUT_PATH: [data: str key -> result, complete: is it
                  \* a whole JSON document]
    prevfile,     \* history: the content of OUTPUT_PATH before the last open
    results,      \* the dict `results`: key -> result
    task_queue,   \* queue.Queue of pos_id (the fen travels with its id)
    remaining,    \* local `remaining` of main()
    progress,     \* progress["done"]
    lock,         \* threading.Lock: {} free, {0} held by main, {w} by worker w
    mpc,          \* position of main()
    dump,         \* json.dump in progress: [keys: the keys of the dict when
                  \* the iteration began, size: their number]
    wpc,          \* position of each worker thread
    wtask,        \* local `pos_id` of each worker: {} or {id}
    wres,         \* local `result` of each worker: {} or {dict}
    process,      \* self.process of each worker: "none" (not created),
                  \* "running" or "exited"
    events        \* history: what went wrong in this run, a set of
                  \* "interrupt", "engine", "persist"

avars == <<apc, line, parsed, lines, final_depth, result, seen>>

mvars == <<positions, startfile, file, prevfile, results, task_queue,
           remaining, progress, lock, mpc, dump, wpc, wtask, wres, process,
           events>>

vars == <<avars, mvars>>

-----------------------------------------------------------------------------
(***************************************************************************)
(* Bounds and program constants.                                           *)
(***************************************************************************)
MULTI_PV == 3

NUM_WORKERS == 2

\* line 237: done % 10
CheckpointEvery == 10

\* largest depth on an engine line
MaxDepth == 2

\* input lists: <<1, ..., MaxPositions>>, and every list of at most MaxShort
\* ids of 1..MaxShort (so with repeated ids)
MaxPositions == 11

MaxShort == 2

\* ids 1..MaxPersisted may be in the file when main() begins
MaxPersisted == 1

-----------------------------------------------------------------------------
(***************************************************************************)
(* Text.  A line of engine output is a sequence of atoms: words (maximal   *)
(* runs of non-blank characters) and single blanks " ".  So a Python       *)
(* string literal such as " score cp " is the sequence                     *)
(* <<" ","score"," ","cp"," ">>, while the Python string "score cp",       *)
(* compared for equality with one word, is the one atom "score cp".        *)
(***************************************************************************)
Min(S) == CHOOSE x \in S : \A y \in S : x <= y

\* " ".join(words)
RECURSIVE Join(_)
Join(words) ==
    IF Len(words) = 0 THEN <<>>
    ELSE IF Len(words) = 1 THEN <<words[1]>>
    ELSE <<words[1], " ">> \o Join(Tail(words))

\* str.split(): the words of a text, blanks dropped
Split(text) == SelectSeq(text, LAMBDA a : a # " ")

\* str.strip(): leading and trailing blanks dropped
RECURSIVE Strip(_)
Strip(text) ==
    IF Len(text) = 0 THEN text
    ELSE IF text[1] = " " THEN Strip(Tail(text))
    ELSE IF text[Len(text)] = " " THEN Strip(SubSeq(text, 1, Len(text) - 1))
    ELSE text

\* str.find(sub): the first position (1-based) where sub occurs, 0 if none
Occurrences(sub, text) ==
    {i \in 1..(Len(text) - Len(sub) + 1) : SubSeq(text, i, i + Len(sub) - 1) = sub}

Find(sub, text) ==
    IF Occurrences(sub, text) = {} THEN 0 ELSE Min(Occurrences(sub, text))

\* `sub in text`
Contains(sub, text) == Occurrences(sub, text) # {}

\* int(s) for the numerals the engine prints here; {} stands for the
\* ValueError / TypeError that int() raises on anything else (None included)
NumeralTable ==
    { <<"-150", -150>>, <<"-2", -2>>, <<"0", 0>>, <<"1", 1>>, <<"2", 2>>,
      <<"3", 3>>, <<"4", 4>>, <<"5", 5>>, <<"6", 6>>, <<"30", 30>> }

int(opt) == {p[2] : p \in {q \in NumeralTable : q[1] \in opt}}

\* str(n) of a number of the table
Numeral(n) == (CHOOSE p \in NumeralTable : p[2] = n)[1]

-----------------------------------------------------------------------------
(***************************************************************************)
(* StockfishWorker._extract and _parse_info (lines 95-137).  A Python      *)
(* value that may be None is a set: {} for None, {v} for v.                *)
(***************************************************************************)
\* _extract(line, key): the word after the first word equal to key
_extract(text, key) ==
    LET parts == Split(text)
        hits  == {i \in 1..Len(parts) : parts[i] = key}
    IN  IF hits = {} THEN {}                       \* ValueError -> None
        ELSE IF Min(hits) + 1 > Len(parts) THEN {} \* IndexError -> None
        ELSE {parts[Min(hits) + 1]}

\* `x or "1"`
OrDefault(opt, dflt) == IF opt = {} THEN {dflt} ELSE opt

\* lines 100-107: the (score_type, score_val) pair; score_val is {} when
\* int() raised
ScoreOf(text) ==
    IF Contains(<<" ", "score", " ", "cp", " ">>, text)
      THEN [type |-> {"cp"}, val |-> int(_extract(text, "score cp"))]
    ELSE IF Contains(<<" ", "score", " ", "mate", " ">>, text)
      THEN [type |-> {"mate"}, val |-> int(_extract(text, "score mate"))]
    ELSE [type |-> {}, val |-> {}]

\* lines 112-113
MovesOf(text) ==
    LET pv_start == Find(<<" ", "pv", " ">>, text) + 3
    IN  Strip(SubSeq(text, pv_start, Len(text)))

\* _parse_info with the test of lines 109-110 lost: a line without a score is
\* taken as a relative score of 0
ParseInfoScoreOptional(text) ==
    LET depth  == int(_extract(text, "depth"))
        pv_num == int(OrDefault(_extract(text, "multipv"), "1"))
        score  == ScoreOf(text)
    IN  IF depth = {} \/ pv_num = {} THEN {}
        ELSE IF score.type # {} /\ score.val = {} THEN {}
        ELSE LET d == CHOOSE x \in depth : TRUE
                 r == CHOOSE x \in pv_num : TRUE
             IN  {[depth |-> d, pv_num |-> r, moves |-> MovesOf(text),
                   eval |-> <<0, 100>>]}

\* an eval is a fraction <<numerator, denominator>>: 9999 is <<9999, 1>>,
\* score_val / 100 is <<score_val, 100>>
_parse_info(text) ==
    LET depth  == int(_extract(text, "depth"))
        pv_num == int(OrDefault(_extract(text, "multipv"), "1"))
        score  == ScoreOf(text)
    IN  IF depth = {} \/ pv_num = {} THEN {}        \* int() raised
        ELSE IF score.type # {} /\ score.val = {} THEN {}  \* int() raised
        ELSE IF score.type = {} THEN {}             \* line 109-110
        ELSE LET d == CHOOSE x \in depth : TRUE
                 r == CHOOSE x \in pv_num : TRUE
                 v == CHOOSE x \in score.val : TRUE
             IN  IF score.type = {"mate"}
                   THEN {[depth |-> d, pv_num |-> r, moves |-> MovesOf(text),
                          mate |-> v,
                          eval |-> IF v > 0 THEN <<9999, 1>> ELSE <<-9999, 1>>]}
                   ELSE {[depth |-> d, pv_num |-> r, moves |-> MovesOf(text),
                          eval |-> <<v, 100>>]}

-----------------------------------------------------------------------------
(***************************************************************************)
(* Engine output (what readline() at line 69 can return during a search).  *)
(* A variant-info line carries a depth 1..MaxDepth, a rank word (absent,   *)
(* written 0 here, or 1..MULTI_PV+1), and a score (absent, cp or mate).    *)
(***************************************************************************)
RankChoices == 0..(MULTI_PV + 1)

ScoreChoices ==
    { <<>>, <<"score", "cp", "30">>, <<"score", "cp", "-150">>,
      <<"score", "mate", "3">>, <<"score", "mate", "-2">> }

PvMoves == <<"e2e4", "e7e5">>

InfoLine(d, r, s) ==
    Join(<<"info", "depth", Numeral(d)>>
         \o (IF r = 0 THEN <<>> ELSE <<"multipv", Numeral(r)>>)
         \o s \o <<"pv">> \o PvMoves)

VariantLines ==
    {InfoLine(d, r, s) : d \in 1..MaxDepth, r \in RankChoices, s \in ScoreChoices}

NoiseLines ==
    { Join(<<"info", "depth", "1", "currmove", "e2e4", "currmovenumber", "1">>),
      Join(<<"info", "string", "NNUE", "evaluation", "enabled">>),
      <<>> }

BestmoveLine == Join(<<"bestmove", "e2e4", "ponder", "e7e5">>)

SearchLines == VariantLines \cup NoiseLines

-----------------------------------------------------------------------------
(***************************************************************************)
(* StockfishWorker.analyze (lines 60-93).                                  *)
(***************************************************************************)
\* line 71: line.startswith("bestmove")
IsBestmove(text) == Len(text) > 0 /\ text[1] = "bestmove"

\* line 74: "info depth" in line and " pv " in line
IsVariantInfo(text) ==
    /\ Contains(<<"info", " ", "depth">>, text)
    /\ Contains(<<" ", "pv", " ">>, text)

\* line 78: pv_num not in lines or lines[pv_num]["depth"] < parsed["depth"]
Replaces(ls, p) == p.pv_num \notin DOMAIN ls \/ ls[p.pv_num].depth < p.depth

\* line 79: lines[pv_num] = parsed
Put(ls, k, v) == [x \in DOMAIN ls \cup {k} |-> IF x = k THEN v ELSE ls[x]]

\* What lines 74-75 compute from the line alone, tabulated once for each
\* line the engine can print: whether it has the variant-info shape and, if
\* so, what _parse_info returns for it.
OnLine ==
    [t \in SearchLines \cup {BestmoveLine} |->
        [variant |-> IsVariantInfo(t),
         got     |-> IF IsVariantInfo(t) THEN _parse_info(t) ELSE {}]]

\* lines 74-81: the body of the read loop for a line that is not bestmove.
\* st holds the locals parsed, lines, final_depth.
LoopBody(st, text) ==
    IF ~OnLine[text].variant THEN st
    ELSE LET got == OnLine[text].got
         IN  IF got = {} THEN [st EXCEPT !.parsed = got]
             ELSE LET p == CHOOSE x \in got : TRUE
                  IN  [parsed |-> got,
                       lines  |-> IF Replaces(st.lines, p)
                                    THEN Put(st.lines, p.pv_num, p)
                                    ELSE st.lines,
                       final_depth |-> IF p.depth > st.final_depth
                                         THEN p.depth ELSE st.final_depth]

\* lines 86-91: one element of the returned list; l.get("mate") is {} (None)
\* or {n}
Variant(l) ==
    [moves |-> l.moves, eval |-> l.eval,
     mate  |-> IF "mate" \in DOMAIN l THEN {l.mate} ELSE {}]

\* lines 83-91: for i in range(from, MULTI_PV + 1): if i in lines: append
RECURSIVE PvsFrom(_, _)
PvsFrom(ls, i) ==
    IF i > MULTI_PV THEN <<>>
    ELSE (IF i \in DOMAIN ls THEN <<Variant(ls[i])>> ELSE <<>>) \o PvsFrom(ls, i + 1)

\* line 93
Returned(ls, fd) == [pvs |-> PvsFrom(ls, 1), depth |-> fd]

\* lines 65-66
NoLines == [x \in {} |-> {}]

Locals0 == [parsed |-> {}, lines |-> NoLines, final_depth |-> 0]

\* analyze() on a whole output: the lines up to the first bestmove line
RECURSIVE RunLoop(_, _)
RunLoop(st, output) ==
    IF Len(output) = 0 \/ IsBestmove(output[1]) THEN st
    ELSE RunLoop(LoopBody(st, output[1]), Tail(output))

analyze(output) ==
    LET st == RunLoop(Locals0, output) IN Returned(st.lines, st.final_depth)

(***************************************************************************)
(* History of a job, kept for the statements about it: the ranks read on   *)
(* a scored variant-info line, the largest depth on such a line, the last  *)
(* such line, and whether all of them so far had one rank and              *)
(* non-decreasing depths.                                                  *)
(***************************************************************************)
HasScore(text) ==
    \/ Contains(<<" ", "score", " ", "cp", " ">>, text)
    \/ Contains(<<" ", "score", " ", "mate", " ">>, text)

DepthOn(text) == CHOOSE d \in int(_extract(text, "depth")) : TRUE

RankOn(text) == CHOOSE r \in int(OrDefault(_extract(text, "multipv"), "1")) : TRUE

IsScoredVariant(text) == IsVariantInfo(text) /\ HasScore(text)

Seen0 == [ranks |-> {}, maxd |-> 0, last |-> <<>>, mono |-> TRUE]

\* the rank and depth of each scored variant-info line the engine can print
ScoredLines ==
    [t \in {u \in SearchLines : IsScoredVariant(u)} |->
        [rank |-> RankOn(t), depth |-> DepthOn(t)]]

Observe(h, text) ==
    IF text \notin DOMAIN ScoredLines THEN h
    ELSE LET new == ScoredLines[text]
         IN  [ranks |-> h.ranks \cup {new.rank},
              maxd  |-> IF new.depth > h.maxd THEN new.depth ELSE h.maxd,
              last  |-> text,
              mono  |-> /\ h.mono
                        /\ \/ h.last = <<>>
                           \/ /\ ScoredLines[h.last].rank = new.rank
                              /\ ScoredLines[h.last].depth <= new.depth]

(***************************************************************************)
(* SpecAnalyze: one job, line by line.  main() is not running.             *)
(***************************************************************************)
NoDict == [x \in {} |-> {}]

MainIdle ==
    /\ positions = <<>>
    /\ startfile = [data |-> NoDict, complete |-> TRUE]
    /\ file = startfile
    /\ prevfile = startfile
    /\ results = NoDict
    /\ task_queue = <<>>
    /\ remaining = 0
    /\ progress = 0
    /\ lock = {}
    /\ mpc = "idle"
    /\ dump = [keys |-> {}, size |-> 0]
    /\ wpc = [w \in 1..NUM_WORKERS |-> "unborn"]
    /\ wtask = [w \in 1..NUM_WORKERS |-> {}]
    /\ wres = [w \in 1..NUM_WORKERS |-> {}]
    /\ process = [w \in 1..NUM_WORKERS |-> "none"]
    /\ events = {}

AInit ==
    /\ apc = "read"
    /\ line = <<>>
    /\ parsed = {}
    /\ lines = NoLines
    /\ final_depth = 0
    /\ result = {}
    /\ seen = Seen0
    /\ MainIdle

\* lines 69-81: a line that does not end the search
ReadSearchLine ==
    /\ apc = "read"
    /\ \E text \in SearchLines :
         LET st == LoopBody([parsed |-> parsed, lines |-> lines,
                             final_depth |-> final_depth], text)
         IN  /\ line' = text
             /\ parsed' = st.parsed
             /\ lines' = st.lines
             /\ final_depth' = st.final_depth
             /\ seen' = Observe(seen, text)
    /\ UNCHANGED <<apc, result, mvars>>

\* lines 69-72 and 83-93: the terminal line, and the return
ReadBestmove ==
    /\ apc = "read"
    /\ line' = BestmoveLine
    /\ IsBestmove(line')
    /\ result' = {Returned(lines, final_depth)}
    /\ apc' = "done"
    /\ UNCHANGED <<parsed, lines, final_depth, seen, mvars>>

ANext == ReadSearchLine \/ ReadBestmove

SpecAnalyze == AInit /\ [][ANext]_vars

-----------------------------------------------------------------------------
(***************************************************************************)
(* Statements about analyze() and _parse_info, checked under SpecAnalyze.  *)
(***************************************************************************)
\* What a scored variant-info line says, read word by word: its depth, its
\* rank (1 when absent), its moves, and its score as the statements describe
\* it (mate N: mate count N, eval +9999 or -9999; cp N: eval N/100).
ScoreKind(text) ==
    IF Contains(<<" ", "score", " ", "cp", " ">>, text) THEN "cp" ELSE "mate"

ScoreNumber(text) == CHOOSE n \in int(_extract(text, ScoreKind(text))) : TRUE

Described(text) ==
    IF ScoreKind(text) = "mate"
      THEN [depth |-> DepthOn(text), pv_num |-> RankOn(text),
            moves |-> MovesOf(text), mate |-> ScoreNumber(text),
            eval |-> IF ScoreNumber(text) > 0 THEN <<9999, 1>> ELSE <<-9999, 1>>]
      ELSE [depth |-> DepthOn(text), pv_num |-> RankOn(text),
            moves |-> MovesOf(text), eval |-> <<ScoreNumber(text), 100>>]

\* No line is ever retained and the final depth stays 0: _parse_info returns
\* None for every scored line, because _extract(line, "score cp") looks for
\* the one word "score cp" among the words of line.split().
NothingRetained == lines = NoLines /\ final_depth = 0 /\ parsed = {}

\* C6: while the scored lines read so far all have one rank and
\* non-decreasing depths, the line retained for that rank is the most
\* recently read of them (so a line of equal depth replaces the retained one).
C6_TieKeepsLatest ==
    (apc = "read" /\ seen.last # <<>> /\ seen.mono)
        => /\ RankOn(seen.last) \in DOMAIN lines
           /\ lines[RankOn(seen.last)] = Described(seen.last)

\* C8: a variant-info line without a score makes _parse_info return None and
\* leaves the retained lines and the final depth as they were.
C8_NoScoreNoUpdate ==
    [][(apc' = "read" /\ IsVariantInfo(line') /\ ~HasScore(line'))
         => /\ _parse_info(line') = {}
            /\ parsed' = {}
            /\ lines' = lines
            /\ final_depth' = final_depth]_vars

\* C8 witness: a variant-info line of the largest depth, with an explicit
\* rank and no score, has been read after a scored line.
C8_Witness ==
    /\ apc = "read"
    /\ IsVariantInfo(line) /\ ~HasScore(line)
    /\ DepthOn(line) = MaxDepth /\ RankOn(line) = MULTI_PV
    /\ seen.ranks # {}

\* C9: after a scored variant-info line, `parsed` holds what the line says:
\* for mate N the mate count N and eval 9999 (N > 0) or -9999; for cp N no
\* mate count and eval N/100.
C9_ScoreNormalized ==
    (apc = "read" /\ IsScoredVariant(line)) => parsed = {Described(line)}

\* C10: the returned list has one variant per rank of 1..MULTI_PV read on a
\* scored line, in ascending rank order, each taken from the line retained
\* for its rank; so at most MULTI_PV of them.
C10_Wanted == seen.ranks \cap (1..MULTI_PV)

C10_ResultShape ==
    apc = "done"
        => \A r \in result :
             /\ Len(r.pvs) <= MULTI_PV
             /\ Len(r.pvs) = Cardinality(C10_Wanted)
             /\ C10_Wanted \subseteq DOMAIN lines
             /\ \A i \in 1..Len(r.pvs) :
                  \E k \in C10_Wanted :
                    /\ Cardinality({j \in C10_Wanted : j < k}) = i - 1
                    /\ r.pvs[i] = Variant(lines[k])

\* C11: the depth returned by analyze() is the largest depth read on a scored
\* variant-info line during the job, whatever its rank and whether or not
\* the line was retained, and 0 when there was none.
C11_FinalDepth ==
    apc = "done" => \A r \in result : r.depth = seen.maxd

-----------------------------------------------------------------------------
(***************************************************************************)
(* main() and worker_thread (lines 145-255).                               *)
(*                                                                         *)
(* A dict key is <<"int", n>> (the Python int n) or <<"str", n>> (the      *)
(* Python str of n).  The input ids are ints; json.load yields str keys.   *)
(***************************************************************************)
Workers == 1..NUM_WORKERS

IntKey(n) == <<"int", n>>

StrKey(n) == <<"str", n>>

\* str(key)
str(k) == <<"str", k[2]>>

\* the id a key stands for, in either form
IdOf(k) == k[2]

IdsOf(keys) == {IdOf(k) : k \in keys}

\* the input lists main() may be given (line 182)
Iota(n) == [i \in 1..n |-> IntKey(i)]

ShortLists ==
    UNION {[1..n -> {IntKey(i) : i \in 1..MaxShort}] : n \in 0..MaxShort}

InputLists == {Iota(MaxPositions)} \cup ShortLists

\* a result written by an earlier run
PriorResult == [depth |-> 0, pvs |-> <<>>, analyzedAt |-> "before"]

\* the files main() may find at OUTPUT_PATH (line 187)
StartFiles ==
    {[data |-> [k \in {StrKey(i) : i \in S} |-> PriorResult], complete |-> TRUE] :
        S \in SUBSET (1..MaxPersisted)}

\* whole outputs of the engine for one `go` (read by analyze at line 69)
EngineOutputs ==
    { <<BestmoveLine>>,
      <<InfoLine(1, 0, <<"score", "cp", "30">>),
        InfoLine(MaxDepth, 1, <<"score", "mate", "3">>),
        InfoLine(1, 2, <<"score", "cp", "-150">>),
        InfoLine(1, MULTI_PV, <<>>),
        InfoLine(1, MULTI_PV, <<"score", "cp", "30">>),
        InfoLine(1, MULTI_PV + 1, <<"score", "mate", "-2">>),
        BestmoveLine>> }

\* lines 188-193: json.load, and `pass` when it raises
Load(f) == IF f.complete THEN f.data ELSE NoDict

\* line 198 with the str() test lost: pos["id"] not in results
NotInResultsAsInt(id, res) == id \notin DOMAIN res

\* line 198: str(pos["id"]) not in results and pos["id"] not in results
NotInResults(id, res) == str(id) \notin DOMAIN res /\ id \notin DOMAIN res

\* lines 196-199
FillQueue(ps, res) == SelectSeq(ps, LAMBDA id : NotInResults(id, res))

\* line 223 with all() for any()
AllAlive(pcs) == \A w \in Workers : pcs[w] # "dead"

\* line 223: any(t.is_alive() for t in threads)
AnyAlive(pcs) == \E w \in Workers : pcs[w] # "dead"

\* lines 158-163: the stored dict
Stored(r) == [depth |-> r.depth, pvs |-> r.pvs, analyzedAt |-> "run"]

\* open(OUTPUT_PATH, "w"): the file is truncated.  Until json.dump has
\* written the last brace and the file is closed, its content (some prefix
\* of the items) is no JSON document: every such content is this one value.
Truncated == [data |-> NoDict, complete |-> FALSE]

\* json.dump writes str(key) for each key (lines 240 and 250)
Dumped(res, keys) ==
    [sk \in {str(k) : k \in keys} |->
        IF IntKey(IdOf(sk)) \in keys THEN res[IntKey(IdOf(sk))] ELSE res[sk]]

\* json.dump begins: the iterator notes the dict's size
DumpBegin(res) == [keys |-> DOMAIN res, size |-> Cardinality(DOMAIN res)]

DumpIdle == [keys |-> {}, size |-> 0]

Init ==
    /\ apc = "idle"
    /\ line = <<>>
    /\ parsed = {}
    /\ lines = NoLines
    /\ final_depth = 0
    /\ result = {}
    /\ seen = Seen0
    /\ positions \in InputLists
    /\ startfile \in StartFiles
    /\ file = startfile
    /\ prevfile = startfile
    /\ results = NoDict
    /\ task_queue = <<>>
    /\ remaining = 0
    /\ progress = 0
    /\ lock = {}
    /\ mpc = "load"
    /\ dump = DumpIdle
    /\ wpc = [w \in Workers |-> "unborn"]
    /\ wtask = [w \in Workers |-> {}]
    /\ wres = [w \in Workers |-> {}]
    /\ process = [w \in Workers |-> "none"]
    /\ events = {}

\* lines 186-193
M_Load ==
    /\ mpc = "load"
    /\ results' = Load(file)
    /\ mpc' = "fill"
    /\ UNCHANGED <<avars, positions, startfile, file, prevfile, task_queue, remaining,
                   progress, lock, dump, wpc, wtask, wres, events, process>>

\* lines 196-201
M_Fill ==
    /\ mpc = "fill"
    /\ task_queue' = FillQueue(positions, results)
    /\ remaining' = Len(task_queue')
    /\ mpc' = "decide"
    /\ UNCHANGED <<avars, positions, startfile, file, prevfile, results, progress,
                   lock, dump, wpc, wtask, wres, events, process>>

\* lines 204-206
M_NothingToDo ==
    /\ mpc = "decide"
    /\ remaining = 0
    /\ mpc' = "done"
    /\ UNCHANGED <<avars, positions, startfile, file, prevfile, results, task_queue,
                   remaining, progress, lock, dump, wpc, wtask, wres, events, process>>

\* lines 209-219 with the counter begun at the number of results loaded:
\* progress = {"done": len(results), ...}
StartWorkersCountingLoaded ==
    /\ mpc = "decide"
    /\ remaining # 0
    /\ progress' = Cardinality(DOMAIN results)
    /\ wpc' = [w \in Workers |-> "start"]
    /\ mpc' = "loop"
    /\ UNCHANGED <<avars, positions, startfile, file, prevfile, results, task_queue,
                   remaining, lock, dump, wtask, wres, events, process>>

\* lines 209-219
M_StartWorkers ==
    /\ mpc = "decide"
    /\ remaining # 0
    /\ progress' = 0
    /\ wpc' = [w \in Workers |-> "start"]
    /\ mpc' = "loop"
    /\ UNCHANGED <<avars, positions, startfile, file, prevfile, results, task_queue,
                   remaining, lock, dump, wtask, wres, events, process>>

\* line 223, and lines 245-246 when the loop ends: every thread is dead and
\* join returns at once
M_AnyAlive ==
    /\ mpc = "loop"
    /\ mpc' = IF AnyAlive(wpc) THEN "poll" ELSE "final"
    /\ UNCHANGED <<avars, positions, startfile, file, prevfile, results, task_queue,
                   remaining, progress, lock, dump, wpc, wtask, wres, events, process>>

\* line 237, on the local `done`
SaveDue(d) == d > 0 /\ d % CheckpointEvery = 0

\* lines 224-237: sleep, read progress["done"] under the lock into the local
\* `done`, and decide on it whether to save
M_Poll ==
    /\ mpc = "poll"
    /\ lock = {}
    /\ mpc' = IF SaveDue(progress) THEN "save" ELSE "loop"
    /\ UNCHANGED <<avars, positions, startfile, file, prevfile, results, task_queue,
                   remaining, progress, lock, dump, wpc, wtask, wres, events, process>>

\* lines 238-239: the periodic save takes the lock and opens the file
M_SaveOpen ==
    /\ mpc = "save"
    /\ lock = {}
    /\ lock' = {0}
    /\ prevfile' = file
    /\ file' = Truncated
    /\ dump' = DumpBegin(results)
    /\ mpc' = "dump"
    /\ UNCHANGED <<avars, positions, startfile, results, task_queue, remaining,
                   progress, wpc, wtask, wres, events, process>>

\* line 249: the final save opens the file, without the lock
M_FinalOpen ==
    /\ mpc = "final"
    /\ prevfile' = file
    /\ file' = Truncated
    /\ dump' = DumpBegin(results)
    /\ mpc' = "final_dump"
    /\ UNCHANGED <<avars, positions, startfile, results, task_queue, remaining,
                   progress, lock, wpc, wtask, wres, events, process>>

\* lines 239 and 249: open() raises OSError; nothing catches it
M_OpenFails ==
    /\ \/ mpc = "save" /\ lock = {}
       \/ mpc = "final"
    /\ events' = events \cup {"persist"}
    /\ mpc' = "fault"
    /\ UNCHANGED <<avars, positions, startfile, file, prevfile, results, task_queue,
                   remaining, progress, lock, dump, wpc, wtask, wres, process>>

\* lines 238-240 and 249-250: json.dump reaches the end of the dict, whose
\* size is the one its iterator noted (an empty dict is written as "{}"
\* without an iterator); the file is closed (and the lock released, for the
\* periodic save)
M_DumpClose ==
    /\ mpc \in {"dump", "final_dump"}
    /\ dump.size = 0 \/ Cardinality(DOMAIN results) = dump.size
    /\ file' = [data |-> Dumped(results, dump.keys), complete |-> TRUE]
    /\ lock' = lock \ {0}
    /\ dump' = DumpIdle
    /\ mpc' = IF mpc = "dump" THEN "loop" ELSE "done"
    /\ UNCHANGED <<avars, positions, startfile, prevfile, results, task_queue,
                   remaining, progress, wpc, wtask, wres, events, process>>

\* line 250: the dict grew while json.dump iterated it: RuntimeError
\* ("dictionary changed size during iteration"); nothing catches it, and
\* the file keeps the items written before
M_DumpRaises ==
    /\ mpc \in {"dump", "final_dump"}
    /\ dump.size # 0
    /\ Cardinality(DOMAIN results) # dump.size
    /\ lock' = lock \ {0}
    /\ dump' = DumpIdle
    /\ mpc' = "fault"
    /\ UNCHANGED <<avars, positions, startfile, file, prevfile, results, task_queue,
                   remaining, progress, wpc, wtask, wres, events, process>>

\* lines 222-242: KeyboardInterrupt anywhere in the try block; a write in
\* progress stops where it is.  Then lines 245-246: join(timeout=1) returns
\* for each thread, dead or not.
M_Interrupt ==
    /\ mpc \in {"loop", "poll", "save", "dump"}
    /\ events' = events \cup {"interrupt"}
    /\ lock' = lock \ {0}
    /\ dump' = DumpIdle
    /\ mpc' = "final"
    /\ UNCHANGED <<avars, positions, startfile, file, prevfile, results, task_queue,
                   remaining, progress, wpc, wtask, wres, process>>

\* the process is killed while OUTPUT_PATH is open for writing: the threads,
\* the queue and the lock are gone, the engines read the end of their input
\* and exit, the file keeps what was written (the dict and the iterator are
\* kept as history of the interrupted write)
M_Crash ==
    /\ mpc \in {"dump", "final_dump"}
    /\ mpc' = "crashed"
    /\ wpc' = [w \in Workers |-> "dead"]
    /\ wtask' = [w \in Workers |-> {}]
    /\ wres' = [w \in Workers |-> {}]
    /\ task_queue' = <<>>
    /\ lock' = {}
    /\ process' = [w \in Workers |-> IF process[w] = "none" THEN "none" ELSE "exited"]
    /\ UNCHANGED <<avars, positions, startfile, file, prevfile, results,
                   remaining, progress, dump, events>>

\* lines 146-147: Popen creates the engine process and both acknowledgments
\* are read
W_Start(w) ==
    /\ wpc[w] = "start"
    /\ process' = [process EXCEPT ![w] = "running"]
    /\ wpc' = [wpc EXCEPT ![w] = "get"]
    /\ UNCHANGED <<avars, positions, startfile, file, prevfile, results, task_queue,
                   remaining, progress, lock, mpc, dump, wtask, wres, events>>

\* lines 150-153
W_Get(w) ==
    /\ wpc[w] = "get"
    /\ IF task_queue # <<>>
         THEN /\ wtask' = [wtask EXCEPT ![w] = {Head(task_queue)}]
              /\ task_queue' = Tail(task_queue)
              /\ wpc' = [wpc EXCEPT ![w] = "analyze"]
         ELSE /\ wpc' = [wpc EXCEPT ![w] = "quit"]
              /\ UNCHANGED <<wtask, task_queue>>
    /\ UNCHANGED <<avars, positions, startfile, file, prevfile, results, remaining,
                   progress, lock, mpc, dump, wres, events, process>>

\* line 155
W_Analyze(w) ==
    /\ wpc[w] = "analyze"
    /\ \E output \in EngineOutputs : wres' = [wres EXCEPT ![w] = {analyze(output)}]
    /\ wpc' = [wpc EXCEPT ![w] = "acquire"]
    /\ UNCHANGED <<avars, positions, startfile, file, prevfile, results, task_queue,
                   remaining, progress, lock, mpc, dump, wtask, events, process>>

\* line 157
W_Acquire(w) ==
    /\ wpc[w] = "acquire"
    /\ lock = {}
    /\ lock' = {w}
    /\ wpc' = [wpc EXCEPT ![w] = "store"]
    /\ UNCHANGED <<avars, positions, startfile, file, prevfile, results, task_queue,
                   remaining, progress, mpc, dump, wtask, wres, events, process>>

\* lines 158-167
W_Store(w) ==
    /\ wpc[w] = "store"
    /\ \E id \in wtask[w], r \in wres[w] : results' = Put(results, id, Stored(r))
    /\ progress' = progress + 1
    /\ lock' = {}
    /\ wtask' = [wtask EXCEPT ![w] = {}]
    /\ wres' = [wres EXCEPT ![w] = {}]
    /\ wpc' = [wpc EXCEPT ![w] = "get"]
    /\ UNCHANGED <<avars, positions, startfile, file, prevfile, task_queue, remaining,
                   mpc, dump, events, process>>

\* line 169 (lines 139-142): "quit" is sent and process.wait() returns when
\* the engine has exited
W_Quit(w) ==
    /\ wpc[w] = "quit"
    /\ process' = [process EXCEPT ![w] = "exited"]
    /\ wpc' = [wpc EXCEPT ![w] = "dead"]
    /\ UNCHANGED <<avars, positions, startfile, file, prevfile, results, task_queue,
                   remaining, progress, lock, mpc, dump, wtask, wres, events>>

\* lines 147 and 155: the engine fails, after Popen created it.  An
\* exception in _send (the pipe is closed) or in readline() (undecodable
\* output) is caught nowhere and ends the thread at once, line 169 not
\* reached, whether the engine still runs or not; a closed output stream
\* makes readline() return "" for ever in _wait_for or analyze, and a silent
\* engine makes it block for ever: the thread never returns.
W_EngineFails(w) ==
    /\ wpc[w] \in {"start", "analyze"}
    /\ \E end \in {"dead", "hung"} : wpc' = [wpc EXCEPT ![w] = end]
    /\ \E p \in {"running", "exited"} : process' = [process EXCEPT ![w] = p]
    /\ events' = events \cup {"engine"}
    /\ UNCHANGED <<avars, positions, startfile, file, prevfile, results, task_queue,
                   remaining, progress, lock, mpc, dump, wtask, wres>>

MainNext ==
    \/ M_Load \/ M_Fill \/ M_NothingToDo \/ M_StartWorkers
    \/ M_AnyAlive \/ M_Poll
    \/ M_SaveOpen \/ M_FinalOpen \/ M_OpenFails
    \/ M_DumpClose \/ M_DumpRaises
    \/ M_Interrupt \/ M_Crash

WorkerNext(w) ==
    \/ W_Start(w) \/ W_Get(w) \/ W_Analyze(w) \/ W_Acquire(w) \/ W_Store(w)
    \/ W_Quit(w) \/ W_EngineFails(w)

Next == MainNext \/ \E w \in Workers : WorkerNext(w)

Spec == Init /\ [][Next]_vars

-----------------------------------------------------------------------------
(***************************************************************************)
(* Statements about main() and the workers, checked under Spec.            *)
(***************************************************************************)
Range(f) == {f[i] : i \in DOMAIN f}

Count(seq, x) == Cardinality({i \in DOMAIN seq : seq[i] = x})

\* the ids of the persisted state loaded when main() began
StartIds == IdsOf(DOMAIN Load(startfile))

\* C1: once the queue is populated, no id of the persisted state loaded at
\* startup is in the queue, and no worker holds one.
C1_IdempotentResume ==
    mpc \notin {"load", "fill"}
        => /\ \A i \in DOMAIN task_queue : IdOf(task_queue[i]) \notin StartIds
           /\ \A w \in Workers : \A id \in wtask[w] : IdOf(id) \notin StartIds

\* C1 witness: the queue has just been populated from a list that holds
\* persisted ids and other ids.
C1_Witness ==
    /\ mpc = "decide"
    /\ task_queue # <<>>
    /\ IdsOf(Range(positions)) \cap StartIds # {}
    /\ Len(task_queue) < Len(positions)

\* C2: an id that is not persisted at startup is put in the queue exactly
\* once, however often the input list names it; no two workers hold the same
\* id, and no worker is handed an id that was already analyzed in this run
\* or that is still queued.
C2_ExactlyOnce ==
    /\ mpc = "decide"
         => \A id \in Range(positions) :
              Count(task_queue, id) = IF IdOf(id) \in StartIds THEN 0 ELSE 1
    /\ \A v \in Workers : \A w \in Workers :
         v # w => wtask[v] \cap wtask[w] = {}
    /\ \A w \in Workers : \A id \in wtask[w] :
         id \notin DOMAIN results /\ id \notin Range(task_queue)

\* C3: when main() finishes a run in which nothing went wrong, the file is a
\* whole document whose ids are those persisted at startup together with
\* those of the input list, and no result has more than MULTI_PV variants.
C3_Completion ==
    (mpc = "done" /\ events = {})
        => /\ file.complete
           /\ IdsOf(DOMAIN file.data) = StartIds \cup IdsOf(Range(positions))
           /\ \A k \in DOMAIN file.data : Len(file.data[k].pvs) <= MULTI_PV

\* C3 witness: main() has finished such a run on a list of three ids or more,
\* id 1 persisted at startup, the others analyzed in this run.
C3_Witness ==
    /\ mpc = "done" /\ events = {}
    /\ Len(positions) >= 3
    /\ 1 \in StartIds
    /\ remaining >= 2
    /\ \E k \in DOMAIN file.data : file.data[k].analyzedAt = "run"

\* C4: after an interrupt in the progress loop, main() ends without a fault
\* and the file holds every id, with its result, that it held at startup.
C4_InterruptKeepsStart ==
    ("interrupt" \in events /\ "persist" \notin events /\ mpc \in {"done", "fault"})
        => /\ mpc = "done"
           /\ file.complete
           /\ \A k \in DOMAIN Load(startfile) :
                k \in DOMAIN file.data /\ file.data[k] = startfile.data[k]

\* C5: if the process is killed during a write of the file, the file is
\* whole, and is the version before the write or the version being written.
C5_AtomicCheckpoint ==
    mpc = "crashed"
        => /\ file.complete
           /\ \/ file = prevfile
              \/ file.data = Dumped(results, DOMAIN results)


\* the ids stored by workers in this run, of a dict or of the file's data
RunKeys(d) == {k \in DOMAIN d : d[k].analyzedAt = "run"}

\* C12: when analyze() fails in a worker, that worker drops the job, leaves
\* the result store as it is and is back at the queue (line 151) for the
\* next item; the other workers are where they were.
C12_FailureIsolation ==
    [][\A w \in Workers :
         (wpc[w] = "analyze" /\ wpc'[w] \notin {"analyze", "acquire"}
                             /\ mpc' # "crashed")
            => /\ wpc'[w] = "get"
               /\ wtask'[w] = {}
               /\ results' = results
               /\ \A v \in Workers \ {w} : wpc'[v] = wpc[v]]_vars

\* C13: start() ends: it returns after the acknowledgments or it raises; it
\* never stays in _wait_for for ever.
C13_HandshakeEnds ==
    [][\A w \in Workers :
         wpc[w] = "start" => wpc'[w] \in {"start", "get", "dead"}]_vars

\* C14: the final save, once begun, ends with main() done and the file a
\* whole document that holds every key the result store held when the
\* snapshot was taken.
C14_FinalFlush ==
    [][(mpc = "final_dump" /\ mpc' \notin {"final_dump", "crashed"})
         => /\ mpc' = "done"
            /\ file'.complete
            /\ \A k \in dump.keys : str(k) \in DOMAIN file'.data]_vars

\* C15: when the progress loop has read a count of CheckpointEvery or more
\* and goes round without saving, the file already holds a checkpoint with
\* at least as many results of this run as the last multiple of
\* CheckpointEvery reached.
C15_Cadence ==
    [][(mpc = "poll" /\ mpc' = "loop" /\ progress >= CheckpointEvery)
         => /\ file.complete
            /\ Cardinality(RunKeys(file.data))
                 >= progress - (progress % CheckpointEvery)]_vars

\* C16: when the periodic save fails to write, main() is back in the
\* progress loop, the result store is as it was and the workers are where
\* they were.
C16_PersistFailureNonFatal ==
    [][(mpc = "save" /\ "persist" \in events' /\ "persist" \notin events)
         => /\ mpc' = "loop"
            /\ results' = results
            /\ wpc' = wpc]_vars

\* C17: main() holds the lock whenever json.dump is iterating the result
\* store, in the periodic and in the final save, and a worker holds it
\* whenever it writes to the store.
C17_MutualExclusion ==
    /\ mpc \in {"dump", "final_dump"} => lock = {0}
    /\ \A w \in Workers : wpc[w] = "store" => lock = {w}

\* C18: once main() has caught the interrupt, no worker takes an item from
\* the queue, and once main() is done after an interrupt the result store
\* does not change.
C18_CancelStopsDispatch ==
    [][("interrupt" \in events /\ mpc' # "crashed")
         => /\ task_queue' = task_queue
            /\ mpc = "done" => results' = results]_vars

\* C19: a worker thread that has ended has no engine process still running.
C19_EngineShutDown ==
    \A w \in Workers : wpc[w] = "dead" => process[w] # "running"


\* the input list names no id twice
DistinctIds == Cardinality(Range(positions)) = Len(positions)

\* the ids in the result store that were not persisted at startup
NewIds == IdsOf(DOMAIN results) \ StartIds

\* C20: for an input list of distinct ids, after every step: if the lock is
\* free, progress["done"] is the number of ids in the result store that were
\* not there at startup, and is at most `remaining`; the counter has not
\* decreased, no key has left the result store and no stored result has
\* changed.  (Before the first step the store is empty and the counter 0.)
C20_ProgressConsistent ==
    [][DistinctIds
         => /\ lock' = {} => /\ progress' = Cardinality(NewIds')
                             /\ remaining' - progress' >= 0
            /\ progress' >= progress
            /\ DOMAIN results \subseteq DOMAIN results'
            /\ \A k \in DOMAIN results : results'[k] = results[k]]_vars

\* C20 witness: a run on distinct ids, one of them persisted at startup, in
\* which a worker lost a job to an engine failure and two results have been
\* stored; the lock is free.
C20_Witness ==
    /\ DistinctIds /\ lock = {}
    /\ 1 \in StartIds
    /\ Len(positions) >= 3
    /\ "engine" \in events
    /\ progress >= 2

=============================================================================
